---- MODULE Spec2Model ----
(***************************************************************************)
(* Hybrid retrieval core of src/src/advanced-agentic-rag.js:               *)
(* VectorStore (vectorize, cosineSimilarity, saveEmbedding, vectorSearch)  *)
(* and AdvancedKnowledgeBase (addDocument, keywordSearch, hybridRetrieval).*)
(*                                                                         *)
(* Strings are sequences of one-character strings.  Numbers are exact:     *)
(* a weight is a fraction <<count, total>>, a similarity is kept as its    *)
(* square (a reduced fraction p/q, the similarity being sqrt(p/q)), and a  *)
(* combined score is (a + 4*sqrt(p/q)) / 10.  NaN is a value of its own.   *)
(***************************************************************************)
EXTENDS Integers, Sequences, FiniteSets, TLC

\* ------------------------------------------------------------------ bounds
MaxDocs == 3
MaxResultsBound == 2

\* ----------------------------------------------------------------- strings
LowerLetters ==
    {"a","b","c","d","e","f","g","h","i","j","k","l","m",
     "n","o","p","q","r","s","t","u","v","w","x","y","z"}

UpperLetters ==
    {"A","B","C","D","E","F","G","H","I","J","K","L","M",
     "N","O","P","Q","R","S","T","U","V","W","X","Y","Z"}

Digits == {"0","1","2","3","4","5","6","7","8","9"}

\* the lower-case letter of each upper-case letter
LowerOf ==
    [c \in UpperLetters |->
        CASE c = "A" -> "a" [] c = "B" -> "b" [] c = "C" -> "c" [] c = "D" -> "d"
          [] c = "E" -> "e" [] c = "F" -> "f" [] c = "G" -> "g" [] c = "H" -> "h"
          [] c = "I" -> "i" [] c = "J" -> "j" [] c = "K" -> "k" [] c = "L" -> "l"
          [] c = "M" -> "m" [] c = "N" -> "n" [] c = "O" -> "o" [] c = "P" -> "p"
          [] c = "Q" -> "q" [] c = "R" -> "r" [] c = "S" -> "s" [] c = "T" -> "t"
          [] c = "U" -> "u" [] c = "V" -> "v" [] c = "W" -> "w" [] c = "X" -> "x"
          [] c = "Y" -> "y" [] c = "Z" -> "z"]

\* String.prototype.toLowerCase on one character
LowerChar(c) == IF c \in UpperLetters THEN LowerOf[c] ELSE c

\* String.prototype.toLowerCase
ToLowerCase(s) == [i \in 1..Len(s) |-> LowerChar(s[i])]

\* the class \w of a regular expression
IsWordChar(c) == c \in LowerLetters \cup UpperLetters \cup Digits \cup {"_"}

\* the class \s of a regular expression
IsSpaceChar(c) == c = " "

\* title + content, the separating space left out
ConcatNoSpace(a, b) == a \o b

\* a + " " + b
Concat3(a, b) == a \o <<" ">> \o b

\* does needle occur in hay at position i (1-based)?
OccursAt(hay, needle, i) ==
    /\ i + Len(needle) - 1 <= Len(hay)
    /\ \A j \in 1..Len(needle) : hay[i + j - 1] = needle[j]

\* String.prototype.includes: true for the empty needle
Includes(hay, needle) ==
    \E i \in 1..(Len(hay) + 1) : OccursAt(hay, needle, i)

\* text.match(/\b\w+\b/g): the maximal runs of word characters, in order
RECURSIVE WordRuns(_, _, _, _)
WordRuns(s, i, cur, acc) ==
    IF i > Len(s)
    THEN IF cur = <<>> THEN acc ELSE Append(acc, cur)
    ELSE IF IsWordChar(s[i])
         THEN WordRuns(s, i + 1, Append(cur, s[i]), acc)
         ELSE WordRuns(s, i + 1, <<>>,
                       IF cur = <<>> THEN acc ELSE Append(acc, cur))

\* text.match(/\b\w+\b/g) || []
MatchWords(text) == WordRuns(text, 1, <<>>, <<>>)

\* String.prototype.split(/\s+/): the pieces between runs of white space;
\* leading or trailing white space (and the empty string) give empty pieces
RECURSIVE SplitFrom(_, _, _, _)
SplitFrom(s, i, cur, acc) ==
    IF i > Len(s)
    THEN Append(acc, cur)
    ELSE IF IsSpaceChar(s[i])
         THEN IF i > 1 /\ IsSpaceChar(s[i - 1])
              THEN SplitFrom(s, i + 1, cur, acc)
              ELSE SplitFrom(s, i + 1, <<>>, Append(acc, cur))
         ELSE SplitFrom(s, i + 1, Append(cur, s[i]), acc)

SplitWhitespace(s) == SplitFrom(s, 1, <<>>, <<>>)

\* ------------------------------------------------------- regular expressions
\* The pattern characters the model knows besides literal letters:
\* "." (any character) and "+" (one or more of the preceding atom, greedy).
\* new RegExp(word, "g") throws a SyntaxError ("Nothing to repeat") when a "+"
\* has no atom before it.
RegExpThrows(word) ==
    \E i \in 1..Len(word) :
        /\ word[i] = "+"
        /\ (i = 1 \/ word[i - 1] = "+")

\* the atoms of a pattern that compiles: [ch, plus]
RECURSIVE AtomsFrom(_, _, _)
AtomsFrom(word, i, acc) ==
    IF i > Len(word) THEN acc
    ELSE IF i < Len(word) /\ word[i + 1] = "+"
         THEN AtomsFrom(word, i + 2, Append(acc, [ch |-> word[i], plus |-> TRUE]))
         ELSE AtomsFrom(word, i + 1, Append(acc, [ch |-> word[i], plus |-> FALSE]))

RegExpAtoms(word) == AtomsFrom(word, 1, <<>>)

AtomMatches(atom, c) == atom.ch = "." \/ atom.ch = c

\* how many consecutive characters from pos on the atom matches
RECURSIVE RunLength(_, _, _)
RunLength(atom, text, pos) ==
    IF pos <= Len(text) /\ AtomMatches(atom, text[pos])
    THEN 1 + RunLength(atom, text, pos + 1)
    ELSE 0

\* the backtracking matcher: the position after the match of atoms[i..]
\* that starts at pos, or 0 when there is none; "+" tries the longest run
\* first
RECURSIVE MatchFrom(_, _, _, _), TryRepeat(_, _, _, _, _)
MatchFrom(atoms, i, text, pos) ==
    IF i > Len(atoms) THEN pos
    ELSE IF atoms[i].plus
         THEN TryRepeat(atoms, i, text, pos, RunLength(atoms[i], text, pos))
         ELSE IF pos <= Len(text) /\ AtomMatches(atoms[i], text[pos])
              THEN MatchFrom(atoms, i + 1, text, pos + 1)
              ELSE 0

TryRepeat(atoms, i, text, pos, n) ==
    IF n < 1 THEN 0
    ELSE LET r == MatchFrom(atoms, i + 1, text, pos + n)
         IN  IF r # 0 THEN r ELSE TryRepeat(atoms, i, text, pos, n - 1)

\* (text.match(new RegExp(word, "g")) || []).length : the successive,
\* non-overlapping matches, each search resuming where the last match ended
RECURSIVE CountFrom(_, _, _)
CountFrom(atoms, text, pos) ==
    IF pos > Len(text) THEN 0
    ELSE LET e == MatchFrom(atoms, 1, text, pos)
         IN  IF e = 0 THEN CountFrom(atoms, text, pos + 1)
             ELSE 1 + CountFrom(atoms, text, IF e = pos THEN pos + 1 ELSE e)

RegExpMatchCount(text, word) == CountFrom(RegExpAtoms(word), text, 1)

\* ----------------------------------------------------------------- numbers
RECURSIVE Gcd(_, _)
Gcd(a, b) == IF b = 0 THEN a ELSE Gcd(b, a % b)

\* a fraction num/den (den > 0) in lowest terms, or NaN
Frac(n, d) ==
    LET g == Gcd(n, d)
    IN  [nan |-> FALSE, num |-> n \div g, den |-> d \div g]

NaN == [nan |-> TRUE, num |-> 0, den |-> 1]

Zero == Frac(0, 1)

\* JSON null where a weight is expected: in a product null counts as 0
Null == [nan |-> FALSE, num |-> 0, den |-> 1, null |-> TRUE]

FracAdd(x, y) ==
    IF x.nan \/ y.nan THEN NaN
    ELSE Frac(x.num * y.den + y.num * x.den, x.den * y.den)

FracMul(x, y) ==
    IF x.nan \/ y.nan THEN NaN
    ELSE Frac(x.num * y.num, x.den * y.den)

\* x / y for y # 0
FracDiv(x, y) ==
    IF x.nan \/ y.nan THEN NaN
    ELSE Frac(x.num * y.den, x.den * y.num)

\* the sum of Term(k) over the keys of a finite set
RECURSIVE SumOver(_, _)
SumOver(keys, term) ==
    IF keys = {} THEN Zero
    ELSE LET k == CHOOSE x \in keys : TRUE
         IN  FracAdd(term[k], SumOver(keys \ {k}, term))

\* ---------------------------------------------------------------- vectorize
\* the one all-lower-case word that names an inherited property of the
\* object literal wordCount = {} : wordCount["constructor"] is a function,
\* (f || 0) + 1 is a string, and string / totalWords is NaN
ConstructorWord == <<"c","o","n","s","t","r","u","c","t","o","r">>

\* how often word occurs in the sequence words
RECURSIVE CountWord(_, _, _)
CountWord(words, word, i) ==
    IF i > Len(words) THEN 0
    ELSE (IF words[i] = word THEN 1 ELSE 0) + CountWord(words, word, i + 1)

\* VectorStore.vectorize: word -> count / totalWords over the words of
\* length > 2; totalWords counts every word
vectorize(text) ==
    LET words == MatchWords(ToLowerCase(text))
        totalWords == Len(words)
        keys == {words[i] : i \in {j \in 1..Len(words) : Len(words[j]) > 2}}
    IN  [w \in keys |->
            IF w = ConstructorWord THEN NaN
            ELSE Frac(CountWord(words, w, 1), totalWords)]

\* --------------------------------------------------------- cosineSimilarity
\* A similarity s >= 0 is kept as s^2 = num/den in lowest terms (or NaN).
SimZero == Zero

\* a slip: the norms run over the common words only
cosineSimilarityCommonNorms(vec1, vec2) ==
    LET commonWords == (DOMAIN vec1) \cap (DOMAIN vec2)
        dotProduct == SumOver(commonWords,
                              [w \in commonWords |-> FracMul(vec1[w], vec2[w])])
        norm1 == SumOver(commonWords,
                         [w \in commonWords |-> FracMul(vec1[w], vec1[w])])
        norm2 == SumOver(commonWords,
                         [w \in commonWords |-> FracMul(vec2[w], vec2[w])])
    IN  IF commonWords = {} THEN SimZero
        ELSE FracDiv(FracMul(dotProduct, dotProduct), FracMul(norm1, norm2))

\* a slip: no early return for vectors without a common word, the quotient
\* is taken even when a norm is 0 (0 / 0 is NaN)
cosineSimilarityNoEarlyReturn(vec1, vec2) ==
    LET words1 == DOMAIN vec1
        words2 == DOMAIN vec2
        commonWords == words1 \cap words2
        dotProduct == SumOver(commonWords,
                              [w \in commonWords |-> FracMul(vec1[w], vec2[w])])
        norm1 == SumOver(words1, [w \in words1 |-> FracMul(vec1[w], vec1[w])])
        norm2 == SumOver(words2, [w \in words2 |-> FracMul(vec2[w], vec2[w])])
        norms == FracMul(norm1, norm2)
    IN  IF ~norms.nan /\ norms.num = 0 THEN NaN
        ELSE FracDiv(FracMul(dotProduct, dotProduct), norms)

\* a slip: the dot product is returned without the division by the norms
cosineSimilarityDotOnly(vec1, vec2) ==
    LET commonWords == (DOMAIN vec1) \cap (DOMAIN vec2)
        dotProduct == SumOver(commonWords,
                              [w \in commonWords |-> FracMul(vec1[w], vec2[w])])
    IN  IF commonWords = {} THEN SimZero
        ELSE FracMul(dotProduct, dotProduct)

\* a slip: the division is by norm1 * norm2 without the square roots
cosineSimilarityNoSqrt(vec1, vec2) ==
    LET words1 == DOMAIN vec1
        words2 == DOMAIN vec2
        commonWords == words1 \cap words2
        dotProduct == SumOver(commonWords,
                              [w \in commonWords |-> FracMul(vec1[w], vec2[w])])
        norm1 == SumOver(words1, [w \in words1 |-> FracMul(vec1[w], vec1[w])])
        norm2 == SumOver(words2, [w \in words2 |-> FracMul(vec2[w], vec2[w])])
        norms == FracMul(norm1, norm2)
    IN  IF commonWords = {} THEN SimZero
        ELSE FracDiv(FracMul(dotProduct, dotProduct), FracMul(norms, norms))

\* VectorStore.cosineSimilarity: 0 when no word is common, else
\* dotProduct / (sqrt(norm1) * sqrt(norm2)), kept squared
cosineSimilarity(vec1, vec2) ==
    LET words1 == DOMAIN vec1
        words2 == DOMAIN vec2
        commonWords == words1 \cap words2
        dotProduct == SumOver(commonWords,
                              [w \in commonWords |-> FracMul(vec1[w], vec2[w])])
        norm1 == SumOver(words1, [w \in words1 |-> FracMul(vec1[w], vec1[w])])
        norm2 == SumOver(words2, [w \in words2 |-> FracMul(vec2[w], vec2[w])])
    IN  IF commonWords = {} THEN SimZero
        ELSE FracDiv(FracMul(dotProduct, dotProduct), FracMul(norm1, norm2))

\* ------------------------------------------------------------------ scores
\* A sort key or combined score is (tenths + 4 * sqrt(sim)) / 10, or NaN:
\* an integer keyword score k is tenths = 10k; k * 0.6 + s * 0.4 is
\* tenths = 6k with sim = s^2; s * 0.4 is tenths = 0 with sim = s^2.
NaNScore == [nan |-> TRUE, tenths |-> 0, sim |-> Zero]

\* doc.relevanceScore || 0 as a combined score (the raw keyword score)
RawScore(k) == [nan |-> FALSE, tenths |-> 10 * k, sim |-> Zero]

\* a slip: the keyword score enters the blend unweighted
BlendScoreUnweighted(k, s) ==
    IF s.nan THEN NaNScore ELSE [nan |-> FALSE, tenths |-> 10 * k, sim |-> s]

\* existing.keywordScore * 0.6 + result.similarity * 0.4
BlendScore(k, s) ==
    IF s.nan THEN NaNScore ELSE [nan |-> FALSE, tenths |-> 6 * k, sim |-> s]

\* result.similarity * 0.4
VectorOnlyScore(s) ==
    IF s.nan THEN NaNScore ELSE [nan |-> FALSE, tenths |-> 0, sim |-> s]

\* a similarity as a sort key (the order of s is the order of 0.4 * s)
SimKey(s) == VectorOnlyScore(s)

\* x >= y for two scores that are not NaN.  With u = 4*sqrt(x.sim),
\* v = 4*sqrt(y.sim) (both in [0,4]) and d = x.tenths - y.tenths the
\* question is d + u >= v, decided by squaring.
ScoreGE(x, y) ==
    LET d  == x.tenths - y.tenths
        px == x.sim.num
        qx == x.sim.den
        py == y.sim.num
        qy == y.sim.den
    IN  IF d = 0 THEN px * qy >= py * qx
        ELSE IF d >= 4 THEN TRUE
        ELSE IF d <= -4 THEN d = -4 /\ px = qx /\ py = 0
        ELSE IF px = 0 THEN d > 0 /\ d * d * qy >= 16 * py
        ELSE IF py = 0 THEN d > 0 \/ 16 * px >= d * d * qx
        ELSE IF d > 0
        THEN LET r == 16 * py * qx - 16 * px * qy - d * d * qx * qy
             IN  r <= 0 \/ 64 * d * d * px * qx * qy * qy >= r * r
        ELSE LET r == 16 * px * qy - 16 * py * qx - d * d * qx * qy
             IN  r >= 0 /\ r * r >= 64 * d * d * py * qy * qx * qx

\* the comparator (a, b) => b.score - a.score says "a after b":
\* the difference is positive; a NaN difference counts as 0
SortsAfter(a, b) == ~a.nan /\ ~b.nan /\ ~ScoreGE(a, b)

\* ------------------------------------------------------ Array.prototype.sort
\* the comparator is inconsistent when a NaN key (equal to everything) meets
\* two keys that differ
Inconsistent(keys) ==
    /\ \E i \in 1..Len(keys) : keys[i].nan
    /\ \E j, k \in 1..Len(keys) :
          SortsAfter(keys[j], keys[k])

\* a slip: the new index goes in front of the indices with an equal key
RECURSIVE InsertIndexUnstable(_, _, _, _)
InsertIndexUnstable(sorted, idx, keys, j) ==
    IF j >= 1 /\ ~SortsAfter(keys[idx], keys[sorted[j]])
    THEN InsertIndexUnstable(sorted, idx, keys, j - 1)
    ELSE SubSeq(sorted, 1, j) \o <<idx>> \o SubSeq(sorted, j + 1, Len(sorted))

\* insert index idx into the sorted index sequence: behind every index
\* whose key does not sort after the new key
RECURSIVE InsertIndex(_, _, _, _)
InsertIndex(sorted, idx, keys, j) ==
    IF j >= 1 /\ SortsAfter(keys[sorted[j]], keys[idx])
    THEN InsertIndex(sorted, idx, keys, j - 1)
    ELSE SubSeq(sorted, 1, j) \o <<idx>> \o SubSeq(sorted, j + 1, Len(sorted))

RECURSIVE SortIndices(_, _, _)
SortIndices(keys, i, sorted) ==
    IF i > Len(keys) THEN sorted
    ELSE SortIndices(keys, i + 1, InsertIndex(sorted, i, keys, Len(sorted)))

\* Array.prototype.sort (stable) by descending key: the orders of the
\* indices an engine may produce.  One order for a consistent comparator;
\* for an inconsistent one the order is implementation-defined.
SortOrders(keys) ==
    IF Inconsistent(keys)
    THEN {[i \in 1..Len(keys) |-> f[i]] : f \in Permutations(1..Len(keys))}
    ELSE {SortIndices(keys, 1, <<>>)}

\* Array.prototype.slice(0, n) for n >= 0
Slice(seq, n) == SubSeq(seq, 1, IF n < Len(seq) THEN n ELSE Len(seq))

\* the sequence seq in the order of the index sequence ord
Reorder(seq, ord) == [i \in 1..Len(seq) |-> seq[ord[i]]]

\* ------------------------------------------------------------ keywordSearch
\* the sum of f[i] for i in lo..hi
RECURSIVE SumSeq(_, _)
SumSeq(f, i) == IF i > Len(f) THEN 0 ELSE f[i] + SumSeq(f, i + 1)

\* the body of the document loop of keywordSearch: the score of one document
KeywordScore(doc, query) ==
    LET queryLower == ToLowerCase(query)
        title == ToLowerCase(doc.title)
        content == ToLowerCase(doc.content)
        queryWords == SplitWhitespace(queryLower)
    IN  (IF Includes(title, queryLower) THEN 5 ELSE 0)
      + (IF Includes(content, queryLower) THEN 3 ELSE 0)
      + SumSeq([t \in 1..Len(doc.tags) |->
                  IF Includes(ToLowerCase(doc.tags[t]), queryLower)
                  THEN 2 ELSE 0], 1)
      + SumSeq([w \in 1..Len(queryWords) |->
                  IF Len(queryWords[w]) > 2
                  THEN RegExpMatchCount(title, queryWords[w]) * 2
                     + RegExpMatchCount(content, queryWords[w]) * 1
                  ELSE 0], 1)

\* the text of a property the parsed value does not have
Undefined == <<"undefined">>

\* an element of the parsed document list that is no document (a number):
\* its id, title and content are undefined
NotADocument ==
    [id |-> 0, title |-> Undefined, content |-> Undefined, tags |-> <<>>]

\* keywordSearch raises when doc.title.toLowerCase() does (the title is
\* undefined) and when new RegExp(word, "g") does: some query word of
\* length > 2 does not compile and the document loop runs at least once
KeywordSearchThrows(docs, query) ==
    LET queryWords == SplitWhitespace(ToLowerCase(query))
    IN  \/ \E i \in 1..Len(docs) : docs[i].title = Undefined
        \/ /\ Len(docs) > 0
           /\ \E w \in 1..Len(queryWords) :
                 Len(queryWords[w]) > 2 /\ RegExpThrows(queryWords[w])

\* { ...doc, relevanceScore: score }
WithRelevance(doc, score) ==
    [id |-> doc.id, title |-> doc.title, content |-> doc.content,
     tags |-> doc.tags, relevanceScore |-> score]

\* the elements of seq at the indices where keep is TRUE, in order
RECURSIVE FilterSeq(_, _, _)
FilterSeq(seq, keep, i) ==
    IF i > Len(seq) THEN <<>>
    ELSE (IF keep[i] THEN <<seq[i]>> ELSE <<>>) \o FilterSeq(seq, keep, i + 1)

\* a slip: score >= 0 instead of score > 0 keeps the documents without a match
keywordSearchKeepZero(docs, query, maxResults) ==
    LET scored == [i \in 1..Len(docs) |->
                     WithRelevance(docs[i], KeywordScore(docs[i], query))]
        keys == [i \in 1..Len(scored) |-> RawScore(scored[i].relevanceScore)]
    IN  Slice(Reorder(scored, SortIndices(keys, 1, <<>>)), maxResults)

\* AdvancedKnowledgeBase.keywordSearch, for a query that does not raise
keywordSearch(docs, query, maxResults) ==
    LET scored == [i \in 1..Len(docs) |->
                     WithRelevance(docs[i], KeywordScore(docs[i], query))]
        results == FilterSeq(scored,
                             [i \in 1..Len(docs) |-> scored[i].relevanceScore > 0], 1)
        keys == [i \in 1..Len(results) |-> RawScore(results[i].relevanceScore)]
    IN  Slice(Reorder(results, SortIndices(keys, 1, <<>>)), maxResults)

\* the ids of a set in ascending order
RECURSIVE IdsInOrder(_)
IdsInOrder(ids) ==
    IF ids = {} THEN <<>>
    ELSE LET least == CHOOSE x \in ids : \A y \in ids : x <= y
         IN  <<least>> \o IdsInOrder(ids \ {least})

\* a slip: the loop runs over every key of the table instead of docIds
vectorSearchAllKeys(table, query, docIds, topK) ==
    LET queryVector == vectorize(query)
        known == IdsInOrder(DOMAIN table)
        similarities == [i \in 1..Len(known) |->
                           [docId |-> known[i],
                            similarity |-> cosineSimilarity(queryVector,
                                                            table[known[i]])]]
        keys == [i \in 1..Len(known) |-> SimKey(similarities[i].similarity)]
    IN  {Slice(Reorder(similarities, ord), topK) : ord \in SortOrders(keys)}

\* a slip: no embeddings.has(docId) test, an id without an entry is scored
\* as an empty vector
vectorSearchKeepAbsent(table, query, docIds, topK) ==
    LET queryVector == vectorize(query)
        similarities == [i \in 1..Len(docIds) |->
                           [docId |-> docIds[i],
                            similarity |->
                               IF docIds[i] \in DOMAIN table
                               THEN cosineSimilarity(queryVector, table[docIds[i]])
                               ELSE SimZero]]
        keys == [i \in 1..Len(docIds) |-> SimKey(similarities[i].similarity)]
    IN  {Slice(Reorder(similarities, ord), topK) : ord \in SortOrders(keys)}

\* a slip: only the candidates with a similarity above 0 are collected
vectorSearchDropZero(table, query, docIds, topK) ==
    LET queryVector == vectorize(query)
        known == FilterSeq(docIds,
                           [i \in 1..Len(docIds) |->
                               /\ docIds[i] \in DOMAIN table
                               /\ cosineSimilarity(queryVector, table[docIds[i]])
                                     # SimZero], 1)
        similarities == [i \in 1..Len(known) |->
                           [docId |-> known[i],
                            similarity |-> cosineSimilarity(queryVector,
                                                            table[known[i]])]]
        keys == [i \in 1..Len(known) |-> SimKey(similarities[i].similarity)]
    IN  {Slice(Reorder(similarities, ord), topK) : ord \in SortOrders(keys)}

\* ------------------------------------------------------------- vectorSearch
\* a table entry that is JSON null instead of a vector
NullVector == [w \in {<<>>} |-> Null]

\* vectorSearch raises when cosineSimilarity does: Object.keys(null) for a
\* candidate whose table entry is null
VectorSearchThrows(table, docIds) ==
    \E i \in 1..Len(docIds) :
        docIds[i] \in DOMAIN table /\ table[docIds[i]] = NullVector

\* VectorStore.vectorSearch: the result lists an engine may return
vectorSearch(table, query, docIds, topK) ==
    LET queryVector == vectorize(query)
        known == FilterSeq(docIds,
                           [i \in 1..Len(docIds) |-> docIds[i] \in DOMAIN table], 1)
        similarities == [i \in 1..Len(known) |->
                           [docId |-> known[i],
                            similarity |-> cosineSimilarity(queryVector,
                                                            table[known[i]])]]
        keys == [i \in 1..Len(known) |-> SimKey(similarities[i].similarity)]
    IN  {Slice(Reorder(similarities, ord), topK) : ord \in SortOrders(keys)}

\* ---------------------------------------------------------- hybridRetrieval
\* an entry of combinedResults: { ...doc, keywordScore, vectorScore,
\* combinedScore } (the copied relevanceScore of a keyword result is
\* its keywordScore)
Scored(doc, k, s, c) ==
    [id |-> doc.id, title |-> doc.title, content |-> doc.content,
     tags |-> doc.tags, keywordScore |-> k, vectorScore |-> s,
     combinedScore |-> c]

\* the index of the entry with this id, 0 when there is none
IndexOfId(entries, id) ==
    IF \E i \in 1..Len(entries) : entries[i].id = id
    THEN CHOOSE i \in 1..Len(entries) :
            /\ entries[i].id = id
            /\ \A j \in 1..(i - 1) : entries[j].id # id
    ELSE 0

\* Map.prototype.set on the insertion-ordered map combinedResults
MapSet(entries, e) ==
    LET i == IndexOfId(entries, e.id)
    IN  IF i = 0 THEN Append(entries, e) ELSE [entries EXCEPT ![i] = e]

\* keywordResults.forEach(doc => combinedResults.set(doc.id, ...))
RECURSIVE AddKeywordResults(_, _, _)
AddKeywordResults(entries, keywordResults, i) ==
    IF i > Len(keywordResults) THEN entries
    ELSE LET doc == keywordResults[i]
         IN  AddKeywordResults(
                 MapSet(entries, Scored(doc, doc.relevanceScore, SimZero,
                                        RawScore(doc.relevanceScore))),
                 keywordResults, i + 1)

\* a slip: the callback inserts without looking the id up in the map
AddVectorResultNoLookup(entries, docs, result) ==
    LET d == IndexOfId(docs, result.docId)
    IN  IF d = 0 THEN entries
        ELSE Append(entries,
                    Scored(docs[d], 0, result.similarity,
                           VectorOnlyScore(result.similarity)))

\* the callback of vectorResults.forEach for one result
AddVectorResult(entries, docs, result) ==
    LET d == IndexOfId(docs, result.docId)
        i == IndexOfId(entries, result.docId)
    IN  IF d = 0 THEN entries
        ELSE IF i # 0
        THEN [entries EXCEPT
                 ![i].vectorScore = result.similarity,
                 ![i].combinedScore =
                     BlendScore(entries[i].keywordScore, result.similarity)]
        ELSE Append(entries,
                    Scored(docs[d], 0, result.similarity,
                           VectorOnlyScore(result.similarity)))

RECURSIVE AddVectorResults(_, _, _, _)
AddVectorResults(entries, docs, vectorResults, i) ==
    IF i > Len(vectorResults) THEN entries
    ELSE AddVectorResults(AddVectorResult(entries, docs, vectorResults[i]),
                          docs, vectorResults, i + 1)

\* steps 3 and 4 of hybridRetrieval: merge, sort by combinedScore, slice;
\* the result lists an engine may return
FuseResults(docs, keywordResults, vectorResults, maxResults) ==
    LET merged == AddVectorResults(AddKeywordResults(<<>>, keywordResults, 1),
                                   docs, vectorResults, 1)
        keys == [i \in 1..Len(merged) |-> merged[i].combinedScore]
    IN  {Slice(Reorder(merged, ord), maxResults) : ord \in SortOrders(keys)}

\* the ids of the documents: this.documents.map(doc => doc.id)
DocIdsOf(docs) == [i \in 1..Len(docs) |-> docs[i].id]

\* AdvancedKnowledgeBase.hybridRetrieval as a function of the corpus, the
\* table, the query and the limit: the lists it can return (more than one
\* when a sort has a NaN key)
hybridRetrieval(docs, table, q, n) ==
    UNION {FuseResults(docs, keywordSearch(docs, q, n * 2), vr, n) :
             vr \in vectorSearch(table, q, DocIdsOf(docs), n * 2)}

\* ------------------------------------------------------------------ inputs
EmptyString == <<>>

Alpha == <<"a","l","p","h","a">>

Beta == <<"b","e","t","a">>

\* "Alpha Systems"
TitleA == <<"A","l","p","h","a"," ","S","y","s","t","e","m","s">>

\* "alpha beta gamma alpha"
ContentA == <<"a","l","p","h","a"," ","b","e","t","a"," ","g","a","m","m","a"," ","a","l","p","h","a">>

\* "Beta Overview"
TitleB == <<"B","e","t","a"," ","O","v","e","r","v","i","e","w">>

\* "beta gamma delta"
ContentB == <<"b","e","t","a"," ","g","a","m","m","a"," ","d","e","l","t","a">>

\* "abc"
Abc == <<"a","b","c">>

\* "abbc axc constructor"
ContentC == <<"a","b","b","c"," ","a","x","c"," ","c","o","n","s","t","r","u","c","t","o","r">>

\* "Beta gamma"
QueryBetaGamma == <<"B","e","t","a"," ","g","a","m","m","a">>

\* "c++"
QueryCPlusPlus == <<"c","+","+">>

\* "a.c"
QueryADotC == <<"a",".","c">>

\* "ab+c"
QueryAbPlusC == <<"a","b","+","c">>

\* the documents a caller may add: title, content, tags
DocA == [title |-> TitleA, content |-> ContentA, tags |-> <<Alpha>>]

DocB == [title |-> TitleB, content |-> ContentB, tags |-> <<Beta>>]

DocC == [title |-> Abc, content |-> ContentC, tags |-> <<Abc, <<"a","b","c","d">>>>]

DocInputs == {DocA, DocB, DocC}

Queries ==
    {EmptyString, Alpha, QueryBetaGamma, QueryCPlusPlus, QueryADotC,
     QueryAbPlusC, ConstructorWord, Abc}

\* the default of the parameter maxResults of hybridRetrieval
DefaultMaxResults == 5

MaxResultsChoices == (0..MaxResultsBound) \cup {DefaultMaxResults}

\* ------------------------------------------------------------------- state
VARIABLES
    documents,       \* AdvancedKnowledgeBase.documents
    embeddings,      \* VectorStore.embeddings: docId -> vector
    op,              \* "prompt", or the operation whose result is shown
    query,           \* its query (or text)
    maxResults,      \* its maxResults (or topK)
    candidates,      \* the docIds handed to vectorSearch
    threw,           \* TRUE when it raised
    keywordResults,  \* the list keywordSearch returned to it
    vectorResults,   \* the list vectorSearch returned to it
    results,         \* the list it returned
    knowledgeFile,   \* the content of advanced-knowledge-base.json
    embeddingsFile,  \* the content of embeddings.json
    pending          \* the continuations waiting in the microtask queue

vars == <<documents, embeddings, op, query, maxResults, candidates, threw,
          keywordResults, vectorResults, results, knowledgeFile,
          embeddingsFile, pending>>

\* a document object: the fields the retrieval core reads
MakeDoc(id, in) ==
    [id |-> id, title |-> in.title, content |-> in.content, tags |-> in.tags]

\* the empty Map
EmptyTable == [id \in {} |-> <<>>]

\* a slip: the table is replaced by a map that holds the new entry only
TableSetAlone(table, id, vector) == [i \in {id} |-> vector]

\* Map.prototype.set on the table
TableSet(table, id, vector) ==
    [i \in (DOMAIN table) \cup {id} |-> IF i = id THEN vector ELSE table[i]]

\* a slip: the new weights are added to the entry the id already has
saveEmbeddingAccumulate(table, docId, text) ==
    LET vector == vectorize(text)
        old == IF docId \in DOMAIN table THEN table[docId] ELSE vector
        sum == [w \in (DOMAIN old) \cup (DOMAIN vector) |->
                   IF docId \notin DOMAIN table THEN vector[w]
                   ELSE IF w \notin DOMAIN vector THEN old[w]
                   ELSE IF w \notin DOMAIN old THEN vector[w]
                   ELSE FracAdd(old[w], vector[w])]
    IN  TableSet(table, docId, sum)

\* VectorStore.saveEmbedding
saveEmbedding(table, docId, text) == TableSet(table, docId, vectorize(text))

\* ------------------------------------------------------------- persistence
\* JSON.stringify of a vector: a NaN weight is written as null
StringifyVector(vector) ==
    [w \in DOMAIN vector |-> IF vector[w].nan THEN Null ELSE vector[w]]

\* no such file
MissingFile == [kind |-> "missing"]

\* saveEmbeddings: the content of embeddings.json, the entries of the table
EmbeddingsJSON(table) ==
    [kind |-> "entries",
     table |-> [id \in DOMAIN table |-> StringifyVector(table[id])]]

\* saveKnowledgeBase: the content of advanced-knowledge-base.json
KnowledgeJSON(docs) == [kind |-> "documents", docs |-> docs]

\* loadEmbeddings on a store that holds table: the entries of the file, or
\* the table as it is when the file is missing or the load fails
loadEmbeddings(file, table) ==
    IF file.kind = "entries" THEN file.table ELSE table

\* no query has run
NoQuery ==
    /\ query' = EmptyString
    /\ maxResults' = 0
    /\ candidates' = <<>>
    /\ threw' = FALSE
    /\ keywordResults' = <<>>
    /\ vectorResults' = <<>>
    /\ results' = <<>>

\* The constructors: the document list and the vector table are what the
\* persisted files hold, a list of at most one document here, with the
\* vector an earlier run saved for it or without (a document list without
\* embeddings.json).  The default corpus of createDefaultKnowledgeBase is
\* not among these initial states.
Init ==
    /\ \E in \in DocInputs :
          documents \in {<<>>, <<MakeDoc(1, in)>>}
    /\ knowledgeFile = KnowledgeJSON(documents)
    /\ embeddingsFile \in
          {MissingFile} \cup
          {EmbeddingsJSON(
               saveEmbedding(EmptyTable, documents[i].id,
                             Concat3(documents[i].title, documents[i].content))) :
             i \in 1..Len(documents)}
    /\ embeddings = loadEmbeddings(embeddingsFile, EmptyTable)
    /\ pending = <<>>
    /\ op = "prompt"
    /\ query = EmptyString
    /\ maxResults = 0
    /\ candidates = <<>>
    /\ threw = FALSE
    /\ keywordResults = <<>>
    /\ vectorResults = <<>>
    /\ results = <<>>

\* AdvancedKnowledgeBase.addDocument with the id that line 232 made: push,
\* saveEmbedding, saveKnowledgeBase
AddDocumentWithId(in, id) ==
    /\ op = "prompt"
    /\ LET doc == MakeDoc(id, in)
       IN  /\ documents' = Append(documents, doc)
           /\ embeddings' = saveEmbedding(embeddings, doc.id,
                                          Concat3(doc.title, doc.content))
    /\ embeddingsFile' = EmbeddingsJSON(embeddings')
    /\ knowledgeFile' = KnowledgeJSON(documents')
    /\ op' = "addDocument"
    /\ NoQuery
    /\ UNCHANGED pending

\* AdvancedKnowledgeBase.addDocument when the id it makes is a fresh one (the
\* time in milliseconds and four random bytes; see SpecIds for the ids
\* themselves)
AddDocument(in) ==
    /\ Len(documents) < MaxDocs
    /\ AddDocumentWithId(in, Len(documents) + 1)

\* a slip: keywordSearch writes relevanceScore on the stored documents
\* instead of on copies
KeywordSearchInPlace(q, n) ==
    /\ op = "prompt"
    /\ op' = "keywordSearch"
    /\ query' = q
    /\ maxResults' = n
    /\ candidates' = <<>>
    /\ threw' = KeywordSearchThrows(documents, q)
    /\ keywordResults' = <<>>
    /\ vectorResults' = <<>>
    /\ results' = IF KeywordSearchThrows(documents, q) THEN <<>>
                  ELSE keywordSearch(documents, q, n)
    /\ documents' =
          IF KeywordSearchThrows(documents, q) THEN documents
          ELSE [i \in 1..Len(documents) |->
                  IF KeywordScore(documents[i], q) > 0
                  THEN WithRelevance(documents[i],
                                     KeywordScore(documents[i], q))
                  ELSE documents[i]]
    /\ UNCHANGED <<embeddings, knowledgeFile, embeddingsFile, pending>>

\* AdvancedKnowledgeBase.keywordSearch
KeywordSearch(q, n) ==
    /\ op = "prompt"
    /\ op' = "keywordSearch"
    /\ query' = q
    /\ maxResults' = n
    /\ candidates' = <<>>
    /\ threw' = KeywordSearchThrows(documents, q)
    /\ keywordResults' = <<>>
    /\ vectorResults' = <<>>
    /\ results' = IF KeywordSearchThrows(documents, q) THEN <<>>
                  ELSE keywordSearch(documents, q, n)
    /\ UNCHANGED <<documents, embeddings, knowledgeFile, embeddingsFile, pending>>

\* VectorStore.vectorSearch
VectorSearch(q, docIds, topK) ==
    /\ op = "prompt"
    /\ op' = "vectorSearch"
    /\ query' = q
    /\ maxResults' = topK
    /\ candidates' = docIds
    /\ threw' = VectorSearchThrows(embeddings, docIds)
    /\ keywordResults' = <<>>
    /\ vectorResults' = <<>>
    /\ results' \in IF VectorSearchThrows(embeddings, docIds) THEN {<<>>}
                    ELSE vectorSearch(embeddings, q, docIds, topK)
    /\ UNCHANGED <<documents, embeddings, knowledgeFile, embeddingsFile, pending>>

\* AdvancedKnowledgeBase.hybridRetrieval
HybridRetrieval(q, n) ==
    /\ op = "prompt"
    /\ op' = "hybridRetrieval"
    /\ query' = q
    /\ maxResults' = n
    /\ candidates' = DocIdsOf(documents)
    /\ IF \/ KeywordSearchThrows(documents, q)
          \/ VectorSearchThrows(embeddings, DocIdsOf(documents))
       THEN /\ threw' = TRUE
            /\ keywordResults' = <<>>
            /\ vectorResults' = <<>>
            /\ results' = <<>>
       ELSE /\ threw' = FALSE
            /\ keywordResults' = keywordSearch(documents, q, n * 2)
            /\ vectorResults' \in
                  vectorSearch(embeddings, q, DocIdsOf(documents), n * 2)
            /\ results' \in
                  FuseResults(documents, keywordResults', vectorResults', n)
    /\ UNCHANGED <<documents, embeddings, knowledgeFile, embeddingsFile, pending>>

\* the main loop: the command is done, its output shown, and the next
\* command is read (not before the constructors are done)
AskQuestion ==
    /\ op \notin {"prompt", "start", "vectorStore"}
    /\ op' = "prompt"
    /\ NoQuery
    /\ UNCHANGED <<documents, embeddings, knowledgeFile, embeddingsFile, pending>>

Next ==
    \/ \E in \in DocInputs : AddDocument(in)
    \/ \E q \in Queries, n \in 0..MaxResultsBound : KeywordSearch(q, n)
    \/ \E q \in Queries, n \in 0..MaxResultsBound :
          VectorSearch(q, DocIdsOf(documents), n)
    \/ \E q \in Queries, n \in MaxResultsChoices : HybridRetrieval(q, n)
    \/ AskQuestion

Spec == Init /\ [][Next]_vars

\* -------------------------------------------------- the VectorStore alone
\* The VectorStore used on its own: saveEmbedding and vectorSearch called
\* with any id, text and candidate list, on a table that starts empty
\* (no embeddings.json) and with no document list.
MaxStoreIds == 2

\* ".+" : a text without a word character
TextNoWords == <<".","+">>

\* "ab alpha" : a short word counts in totalWords and is no key
TextShortWord == <<"a","b"," ","a","l","p","h","a">>

\* "alpha beta"
TextAlphaBeta == <<"a","l","p","h","a"," ","b","e","t","a">>

\* "Alpha alpha beta"
TextAlphaTwice == <<"A","l","p","h","a"," ","a","l","p","h","a"," ","b","e","t","a">>

\* "gamma"
TextGamma == <<"g","a","m","m","a">>

\* "constructor alpha"
TextConstructor == <<"c","o","n","s","t","r","u","c","t","o","r"," ","a","l","p","h","a">>

\* "tostring"
TextToString == <<"t","o","s","t","r","i","n","g">>

StoreTexts ==
    {EmptyString, TextNoWords, TextShortWord, TextAlphaBeta, TextAlphaTwice,
     TextGamma, TextConstructor, TextToString}

StoreIds == 1..MaxStoreIds

\* the candidate lists: the ids in ascending and in descending order
StoreCandidates ==
    {[i \in 1..MaxStoreIds |-> i], [i \in 1..MaxStoreIds |-> MaxStoreIds + 1 - i]}

InitStore ==
    /\ documents = <<>>
    /\ embeddings = EmptyTable
    /\ knowledgeFile = MissingFile
    /\ embeddingsFile = MissingFile
    /\ pending = <<>>
    /\ op = "prompt"
    /\ query = EmptyString
    /\ maxResults = 0
    /\ candidates = <<>>
    /\ threw = FALSE
    /\ keywordResults = <<>>
    /\ vectorResults = <<>>
    /\ results = <<>>

\* VectorStore.saveEmbedding called on its own
SaveEmbedding(docId, text) ==
    /\ op = "prompt"
    /\ op' = "saveEmbedding"
    /\ query' = text
    /\ maxResults' = 0
    /\ candidates' = <<docId>>
    /\ threw' = FALSE
    /\ keywordResults' = <<>>
    /\ vectorResults' = <<>>
    /\ results' = <<>>
    /\ embeddings' = saveEmbedding(embeddings, docId, text)
    /\ embeddingsFile' = EmbeddingsJSON(embeddings')
    /\ UNCHANGED <<documents, knowledgeFile, pending>>

NextStore ==
    \/ \E id \in StoreIds, text \in StoreTexts : SaveEmbedding(id, text)
    \/ \E q \in StoreTexts, ids \in StoreCandidates, n \in 0..MaxResultsBound :
          VectorSearch(q, ids, n)
    \/ AskQuestion

SpecStore == InitStore /\ [][NextStore]_vars

\* ------------------------------------------------- the constructors
\* The start of the program on the files an earlier run, or anyone, left:
\* new VectorStore() loads embeddings.json, loadKnowledgeBase loads
\* advanced-knowledge-base.json or creates the default corpus.

\* a file that cannot be read or is not JSON
GarbledFile == [kind |-> "garbled"]

\* a file that holds the JSON number 5
ScalarFile == [kind |-> "scalar"]

\* a file that holds the JSON list [1, 2]
NumbersFile == [kind |-> "numbers"]

\* an id no document of the corpus ever gets
StaleId == MaxDocs + 1

\* embeddings.json with the entry [1, null]
NullEntryFile == [kind |-> "entries", table |-> [id \in {1} |-> NullVector]]

\* embeddings.json as an earlier run saved it: the vector of Doc A for id 1
\* and the vector of a document that is no longer in the corpus
SavedEntriesFile ==
    EmbeddingsJSON(
        saveEmbedding(saveEmbedding(EmptyTable, 1, Concat3(TitleA, ContentA)),
                      StaleId, Concat3(TitleB, ContentB)))

EmbeddingsFiles ==
    {MissingFile, GarbledFile, ScalarFile, NumbersFile, NullEntryFile,
     SavedEntriesFile}

\* advanced-knowledge-base.json: missing, not JSON, the JSON list [1, 2],
\* the empty list, the list of Doc A
KnowledgeFiles ==
    {MissingFile, GarbledFile, KnowledgeJSON(<<NotADocument, NotADocument>>),
     KnowledgeJSON(<<>>), KnowledgeJSON(<<MakeDoc(1, DocA)>>)}

\* The default corpus.  Every run of Chinese characters and punctuation of
\* the source text is written as one "#" (no word character, no space).
\* "Agentic RAG#"
DefaultTitle1 == <<"A","g","e","n","t","i","c"," ","R","A","G","#">>

\* "#TF-IDF#Word2Vec#BERT#Pinecone#Weaviate#"
DefaultContent2 == <<"#","T","F","-","I","D","F","#","W","o","r","d","2","V","e","c","#","B","E","R","T","#","P","i","n","e","c","o","n","e","#","W","e","a","v","i","a","t","e","#">>

\* "#GPT#Claude#Gemini#RAG#"
DefaultContent3 == <<"#","G","P","T","#","C","l","a","u","d","e","#","G","e","m","i","n","i","#","R","A","G","#">>

Cjk == <<"#">>

\* "rag"
Rag == <<"r","a","g">>

defaultDocs ==
    <<[id |-> 1, title |-> DefaultTitle1, content |-> DefaultTitle1,
       tags |-> <<<<"A","g","e","n","t","i","c">>, <<"R","A","G">>, Cjk, Cjk>>],
      [id |-> 2, title |-> Cjk, content |-> DefaultContent2,
       tags |-> <<Cjk, Cjk, Cjk, Cjk>>],
      [id |-> 3, title |-> Cjk, content |-> DefaultContent3,
       tags |-> <<Cjk, <<"G","P","T">>, <<"C","l","a","u","d","e">>, <<"G","e","m","i","n","i">>, Cjk>>]>>

\* for (const doc of defaultDocs) await saveEmbedding(doc.id, title + " " + content)
RECURSIVE SaveEmbeddingsOf(_, _, _)
SaveEmbeddingsOf(table, docs, i) ==
    IF i > Len(docs) THEN table
    ELSE SaveEmbeddingsOf(
             saveEmbedding(table, docs[i].id,
                           Concat3(docs[i].title, docs[i].content)),
             docs, i + 1)

\* JSON.parse of the document file succeeds: the file holds a JSON list
KnowledgeFileParses(file) == file.kind = "documents"

InitLoad ==
    /\ documents = <<>>
    /\ embeddings = EmptyTable
    /\ knowledgeFile \in KnowledgeFiles
    /\ embeddingsFile \in EmbeddingsFiles
    /\ pending = <<>>
    /\ op = "start"
    /\ query = EmptyString
    /\ maxResults = 0
    /\ candidates = <<>>
    /\ threw = FALSE
    /\ keywordResults = <<>>
    /\ vectorResults = <<>>
    /\ results = <<>>

\* new VectorStore(): an empty Map, then loadEmbeddings
NewVectorStore(from, to) ==
    /\ op = from
    /\ op' = to
    /\ embeddings' = loadEmbeddings(embeddingsFile, EmptyTable)
    /\ NoQuery
    /\ UNCHANGED <<documents, knowledgeFile, embeddingsFile, pending>>

\* AdvancedKnowledgeBase.loadKnowledgeBase, with createDefaultKnowledgeBase
\* run to its end when the file is missing or does not parse
LoadKnowledgeBase ==
    /\ op = "vectorStore"
    /\ op' = IF KnowledgeFileParses(knowledgeFile) THEN "loadKnowledgeBase"
             ELSE "createDefaultKnowledgeBase"
    /\ NoQuery
    /\ IF KnowledgeFileParses(knowledgeFile)
       THEN /\ documents' = knowledgeFile.docs
            /\ UNCHANGED <<embeddings, knowledgeFile, embeddingsFile>>
       ELSE /\ documents' = defaultDocs
            /\ embeddings' = SaveEmbeddingsOf(embeddings, defaultDocs, 1)
            /\ embeddingsFile' = EmbeddingsJSON(embeddings')
            /\ knowledgeFile' = KnowledgeJSON(documents')
    /\ UNCHANGED pending

LoadQueries == {Alpha, Beta, Rag}

NextLoad ==
    \/ NewVectorStore("start", "vectorStore")
    \/ LoadKnowledgeBase
    \/ \E in \in DocInputs : AddDocument(in)
    \/ \E q \in LoadQueries, n \in 0..MaxResultsBound : KeywordSearch(q, n)
    \/ \E q \in LoadQueries, n \in 0..MaxResultsBound :
          VectorSearch(q, DocIdsOf(documents), n)
    \/ \E q \in LoadQueries, n \in 0..MaxResultsBound : HybridRetrieval(q, n)
    \/ AskQuestion

SpecLoad == InitLoad /\ [][NextLoad]_vars

\* The VectorStore alone, with a fresh VectorStore constructed over the file
\* that the last saveEmbedding wrote
NextPersist ==
    \/ NextStore
    \/ NewVectorStore("prompt", "loadEmbeddings")

SpecPersist == InitStore /\ [][NextPersist]_vars

\* ---------------------------------------------------------------- the ids
\* addDocument with the id as line 232 makes it: "adv_doc", Date.now(), "_",
\* and the hex digits of crypto.randomBytes(4).  The clock has MaxClock
\* values here and does not run backwards, the random bytes have
\* RandomValues values, and at most MaxAdded documents are added.
MaxClock == 2

RandomValues == 2

MaxAdded == 2

\* the id string as a number: one number for each pair of a time and a value
\* of the random bytes, none of them the id of a default document
GeneratedId(ms, bytes) == Len(defaultDocs) + (ms - 1) * RandomValues + bytes + 1

\* Date.now() of the call that made the id
ClockOf(id) == ((id - Len(defaultDocs) - 1) \div RandomValues) + 1

\* the values Date.now() can return: not before the time of the last id made
Now ==
    LET last == documents[Len(documents)].id
    IN  IF last <= Len(defaultDocs) THEN 1..MaxClock
        ELSE ClockOf(last)..MaxClock

\* After the constructor and createDefaultKnowledgeBase, no file present
InitIds ==
    /\ documents = defaultDocs
    /\ embeddings = SaveEmbeddingsOf(EmptyTable, defaultDocs, 1)
    /\ knowledgeFile = KnowledgeJSON(documents)
    /\ embeddingsFile = EmbeddingsJSON(embeddings)
    /\ pending = <<>>
    /\ op = "prompt"
    /\ query = EmptyString
    /\ maxResults = 0
    /\ candidates = <<>>
    /\ threw = FALSE
    /\ keywordResults = <<>>
    /\ vectorResults = <<>>
    /\ results = <<>>

AddDocumentGenerated(in) ==
    /\ Len(documents) < Len(defaultDocs) + MaxAdded
    /\ \E ms \in Now, bytes \in 0..(RandomValues - 1) :
          AddDocumentWithId(in, GeneratedId(ms, bytes))

NextIds ==
    \/ \E in \in DocInputs : AddDocumentGenerated(in)
    \/ AskQuestion

SpecIds == InitIds /\ [][NextIds]_vars

\* ------------------------------------------------------------ the awaits
\* The operations as the async functions they are.  A call runs up to its
\* first await in the caller's turn; what follows the await is a job of the
\* microtask queue, `pending`, and the jobs run one at a time, first in first
\* out.  A caller that does not await a call can make the next call while
\* jobs of the earlier one are pending.
MaxPending == 2

\* what follows `await this.vectorize(text)` in saveEmbedding (lines 77-78);
\* by is the caller that awaits the call, i its loop index
SaveJob(docId, text, by, i) ==
    [k |-> "saveEmbedding", docId |-> docId, text |-> text, by |-> by, i |-> i]

\* what follows `await this.vectorize(query)` in vectorSearch (lines 84-96);
\* kw and n are the keyword results and the limit of a hybridRetrieval that
\* awaits the call
SearchJob(q, docIds, topK, by, kw, n) ==
    [k |-> "vectorSearch", query |-> q, docIds |-> docIds, topK |-> topK,
     by |-> by, kw |-> kw, n |-> n]

\* what follows `await this.vectorStore.vectorSearch(...)` in hybridRetrieval
FuseJob(q, kw, vr, n) ==
    [k |-> "hybridRetrieval", query |-> q, kw |-> kw, vr |-> vr, n |-> n]

\* what follows `await this.vectorStore.saveEmbedding(...)` in addDocument
AddedJob == [k |-> "addDocument"]

\* what follows `await this.vectorStore.saveEmbedding(...)` in the loop of
\* createDefaultKnowledgeBase: the next iteration
DefaultJob(i) == [k |-> "createDefaultKnowledgeBase", i |-> i]

AsyncQueries == {Alpha, Rag}

\* After `new AdvancedKnowledgeBase()` has returned: either both files were
\* there (Doc A and its vector), or none was and createDefaultKnowledgeBase,
\* which the constructor does not await, waits in its first saveEmbedding.
InitAsync ==
    /\ \/ /\ documents = <<MakeDoc(1, DocA)>>
          /\ embeddings = saveEmbedding(EmptyTable, 1, Concat3(TitleA, ContentA))
          /\ knowledgeFile = KnowledgeJSON(documents)
          /\ embeddingsFile = EmbeddingsJSON(embeddings)
          /\ pending = <<>>
       \/ /\ documents = defaultDocs
          /\ embeddings = EmptyTable
          /\ knowledgeFile = MissingFile
          /\ embeddingsFile = MissingFile
          /\ pending = <<SaveJob(defaultDocs[1].id,
                                 Concat3(defaultDocs[1].title,
                                         defaultDocs[1].content),
                                 "createDefaultKnowledgeBase", 1)>>
    /\ op = "constructor"
    /\ query = EmptyString
    /\ maxResults = 0
    /\ candidates = <<>>
    /\ threw = FALSE
    /\ keywordResults = <<>>
    /\ vectorResults = <<>>
    /\ results = <<>>

\* addDocument up to its await: the push, and saveEmbedding up to its await
CallAddDocument(in) ==
    /\ Len(documents) < MaxDocs
    /\ Len(pending) < MaxPending
    /\ LET doc == MakeDoc(Len(documents) + 1, in)
       IN  /\ documents' = Append(documents, doc)
           /\ pending' = Append(pending,
                                SaveJob(doc.id, Concat3(doc.title, doc.content),
                                        "addDocument", 0))
    /\ op' = "call addDocument"
    /\ NoQuery
    /\ UNCHANGED <<embeddings, knowledgeFile, embeddingsFile>>

\* vectorSearch up to its await
CallVectorSearch(q, docIds, topK) ==
    /\ Len(pending) < MaxPending
    /\ pending' = Append(pending, SearchJob(q, docIds, topK, "caller", <<>>, 0))
    /\ op' = "call vectorSearch"
    /\ NoQuery
    /\ UNCHANGED <<documents, embeddings, knowledgeFile, embeddingsFile>>

\* hybridRetrieval up to its await: the keyword phase, the id list, and
\* vectorSearch up to its await
CallHybridRetrieval(q, n) ==
    /\ Len(pending) < MaxPending
    /\ pending' = Append(pending,
                         SearchJob(q, DocIdsOf(documents), n * 2,
                                   "hybridRetrieval",
                                   keywordSearch(documents, q, n * 2), n))
    /\ op' = "call hybridRetrieval"
    /\ NoQuery
    /\ UNCHANGED <<documents, embeddings, knowledgeFile, embeddingsFile>>

\* saveEmbedding after its await: the set, the file, and the caller resumes
RunSaveEmbedding ==
    /\ pending # <<>>
    /\ Head(pending).k = "saveEmbedding"
    /\ LET job == Head(pending)
       IN  /\ embeddings' = saveEmbedding(embeddings, job.docId, job.text)
           /\ pending' =
                 Tail(pending) \o
                 (IF job.by = "addDocument" THEN <<AddedJob>>
                  ELSE <<DefaultJob(job.i + 1)>>)
    /\ embeddingsFile' = EmbeddingsJSON(embeddings')
    /\ op' = "saveEmbedding"
    /\ NoQuery
    /\ UNCHANGED <<documents, knowledgeFile>>

\* addDocument after its await: saveKnowledgeBase, return doc.id
RunAddDocument ==
    /\ pending # <<>>
    /\ Head(pending).k = "addDocument"
    /\ pending' = Tail(pending)
    /\ knowledgeFile' = KnowledgeJSON(documents)
    /\ op' = "addDocument"
    /\ NoQuery
    /\ UNCHANGED <<documents, embeddings, embeddingsFile>>

\* createDefaultKnowledgeBase after an await: the next document of the loop,
\* or saveKnowledgeBase.  The loop runs over the array that this.documents
\* was assigned, so over what addDocument has pushed to it in the meantime.
RunCreateDefault ==
    /\ pending # <<>>
    /\ Head(pending).k = "createDefaultKnowledgeBase"
    /\ LET i == Head(pending).i
       IN  IF i <= Len(documents)
           THEN /\ pending' =
                      Tail(pending) \o
                      <<SaveJob(documents[i].id,
                                Concat3(documents[i].title, documents[i].content),
                                "createDefaultKnowledgeBase", i)>>
                /\ op' = "await saveEmbedding"
                /\ UNCHANGED knowledgeFile
           ELSE /\ pending' = Tail(pending)
                /\ op' = "createDefaultKnowledgeBase"
                /\ knowledgeFile' = KnowledgeJSON(documents)
    /\ NoQuery
    /\ UNCHANGED <<documents, embeddings, embeddingsFile>>

\* vectorSearch after its await: the loop over docIds, the sort, the slice
RunVectorSearch ==
    /\ pending # <<>>
    /\ Head(pending).k = "vectorSearch"
    /\ LET job == Head(pending)
       IN  /\ query' = job.query
           /\ maxResults' = job.topK
           /\ candidates' = job.docIds
           /\ keywordResults' = job.kw
           /\ vectorResults' \in
                 vectorSearch(embeddings, job.query, job.docIds, job.topK)
           /\ IF job.by = "hybridRetrieval"
              THEN /\ results' = <<>>
                   /\ pending' =
                         Tail(pending) \o
                         <<FuseJob(job.query, job.kw, vectorResults', job.n)>>
              ELSE /\ results' = vectorResults'
                   /\ pending' = Tail(pending)
    /\ op' = "vectorSearch"
    /\ threw' = FALSE
    /\ UNCHANGED <<documents, embeddings, knowledgeFile, embeddingsFile>>

\* hybridRetrieval after its await: the fusion, the sort, the slice
RunHybridRetrieval ==
    /\ pending # <<>>
    /\ Head(pending).k = "hybridRetrieval"
    /\ LET job == Head(pending)
       IN  /\ query' = job.query
           /\ maxResults' = job.n
           /\ candidates' = <<>>
           /\ keywordResults' = job.kw
           /\ vectorResults' = job.vr
           /\ results' \in FuseResults(documents, job.kw, job.vr, job.n)
    /\ pending' = Tail(pending)
    /\ op' = "hybridRetrieval"
    /\ threw' = FALSE
    /\ UNCHANGED <<documents, embeddings, knowledgeFile, embeddingsFile>>

NextAsync ==
    \/ \E in \in DocInputs : CallAddDocument(in)
    \/ \E q \in AsyncQueries, n \in 1..MaxResultsBound :
          CallVectorSearch(q, DocIdsOf(documents), n)
    \/ \E q \in AsyncQueries, n \in 1..MaxResultsBound : CallHybridRetrieval(q, n)
    \/ RunSaveEmbedding
    \/ RunAddDocument
    \/ RunCreateDefault
    \/ RunVectorSearch
    \/ RunHybridRetrieval

SpecAsync == InitAsync /\ [][NextAsync]_vars

\* ------------------------------------------------------------------ claims
\* a hybridRetrieval call that returned
HybridReturned == op = "hybridRetrieval" /\ ~threw

\* a keywordSearch call that returned
KeywordReturned == op = "keywordSearch" /\ ~threw

InKeywordResults(id) == \E i \in 1..Len(keywordResults) : keywordResults[i].id = id

InVectorResults(id) == \E i \in 1..Len(vectorResults) : vectorResults[i].docId = id

\* the document of the corpus with this id
DocOfId(id) == documents[IndexOfId(documents, id)]

\* the text addDocument vectorizes
OwnText(doc) == Concat3(doc.title, doc.content)

\* C1: every entry of a hybridRetrieval result has combinedScore =
\* keywordScore*0.6 + vectorScore*0.4 when its id is in both the keyword
\* list and the vector list (a NaN vectorScore giving NaN), the raw
\* keywordScore with vectorScore 0 when it is only in the keyword list, and
\* vectorScore*0.4 with keywordScore 0 when it is only in the vector list.
C1_FusionFormula ==
    HybridReturned =>
        \A i \in 1..Len(results) :
            LET e == results[i]
                inK == InKeywordResults(e.id)
                inV == InVectorResults(e.id)
            IN  /\ inK \/ inV
                /\ (inK /\ inV) =>
                      e.combinedScore =
                          IF e.vectorScore.nan
                          THEN [nan |-> TRUE, tenths |-> 0, sim |-> Frac(0, 1)]
                          ELSE [nan |-> FALSE, tenths |-> 6 * e.keywordScore,
                                sim |-> e.vectorScore]
                /\ (inK /\ ~inV) =>
                      /\ e.vectorScore = Frac(0, 1)
                      /\ e.combinedScore =
                            [nan |-> FALSE, tenths |-> 10 * e.keywordScore,
                             sim |-> Frac(0, 1)]
                /\ (inV /\ ~inK) =>
                      /\ e.keywordScore = 0
                      /\ e.combinedScore =
                            IF e.vectorScore.nan
                            THEN [nan |-> TRUE, tenths |-> 0, sim |-> Frac(0, 1)]
                            ELSE [nan |-> FALSE, tenths |-> 0,
                                  sim |-> e.vectorScore]

\* a result that holds one entry of each kind, the blended one with a
\* keyword score and a similarity that are both positive
C1_Witness ==
    /\ HybridReturned
    /\ \E i, j, k \in 1..Len(results) :
          /\ InKeywordResults(results[i].id) /\ InVectorResults(results[i].id)
          /\ results[i].keywordScore > 0
          /\ ~results[i].vectorScore.nan /\ results[i].vectorScore.num > 0
          /\ InKeywordResults(results[j].id) /\ ~InVectorResults(results[j].id)
          /\ ~InKeywordResults(results[k].id) /\ InVectorResults(results[k].id)

\* a query operation has run
QueryRan == op \in {"keywordSearch", "hybridRetrieval"}

\* C2: for the empty query every document has keyword score 0, and
\* keywordSearch and hybridRetrieval return an empty list without raising.
C2_EmptyQueryEmptyResult ==
    (QueryRan /\ query = EmptyString) =>
        /\ \A i \in 1..Len(documents) : KeywordScore(documents[i], query) = 0
        /\ ~threw
        /\ results = <<>>

\* the similarity of the query to the table entry of this id is 0 (or the
\* id has no entry)
NoSimilarity(id) ==
    id \in DOMAIN embeddings =>
        cosineSimilarity(vectorize(query), embeddings[id]) = Frac(0, 1)

\* C3: a hybridRetrieval result never holds a document whose keyword score
\* for the query is 0 and whose similarity to the query vector is 0.
C3_NoUnmatchedDocument ==
    HybridReturned =>
        \A i \in 1..Len(results) :
            ~(/\ KeywordScore(DocOfId(results[i].id), query) = 0
              /\ NoSimilarity(results[i].id))

\* the document has the title, content and tags of the input
IsDoc(d, in) ==
    d.title = in.title /\ d.content = in.content /\ d.tags = in.tags

\* the corpus is exactly Doc A and Doc B, each vectorized from its title
\* and content
ScenarioAB ==
    /\ Len(documents) = 2
    /\ \E a, b \in 1..2 :
          a # b /\ IsDoc(documents[a], DocA) /\ IsDoc(documents[b], DocB)
    /\ \A i \in 1..2 :
          /\ documents[i].id \in DOMAIN embeddings
          /\ embeddings[documents[i].id] = vectorize(OwnText(documents[i]))

\* keywordSearch("alpha") in the scenario: Doc A alone, with score 14
ScenarioKeywordPart ==
    (KeywordReturned /\ maxResults >= 1) =>
        /\ Len(results) = 1
        /\ IsDoc(results[1], DocA)
        /\ results[1].relevanceScore = 14

\* C4 as stated: in the scenario keywordSearch("alpha") gives Doc A the
\* score 14 and leaves Doc B out, and hybridRetrieval("alpha", 5) returns
\* Doc A first with combinedScore 14.
C4_WorkedScenarioAsStated ==
    (ScenarioAB /\ query = Alpha) =>
        /\ ScenarioKeywordPart
        /\ (HybridReturned /\ maxResults = DefaultMaxResults) =>
              /\ Len(results) >= 1
              /\ IsDoc(results[1], DocA)
              /\ results[1].combinedScore =
                    [nan |-> FALSE, tenths |-> 140, sim |-> Frac(0, 1)]

\* C4 amended: in the scenario keywordSearch("alpha") gives Doc A the score
\* 14 and leaves Doc B out, and hybridRetrieval("alpha", 5) returns Doc A
\* first with keywordScore 14, vectorScore sqrt(3/4) and combinedScore
\* 14*0.6 + sqrt(3/4)*0.4.
C4_WorkedScenario ==
    (ScenarioAB /\ query = Alpha) =>
        /\ ScenarioKeywordPart
        /\ (HybridReturned /\ maxResults = DefaultMaxResults) =>
              /\ Len(results) >= 1
              /\ IsDoc(results[1], DocA)
              /\ results[1].keywordScore = 14
              /\ results[1].vectorScore = Frac(3, 4)
              /\ results[1].combinedScore =
                    [nan |-> FALSE, tenths |-> 84, sim |-> Frac(3, 4)]

\* hybridRetrieval("alpha", 5) has returned in the scenario
C4_Witness ==
    /\ ScenarioAB
    /\ query = Alpha
    /\ HybridReturned
    /\ maxResults = DefaultMaxResults
    /\ Len(results) = 2

\* C5: keywordSearch and hybridRetrieval never raise, whatever the query.
C5_NeverRaises == QueryRan => ~threw

\* how often word occurs in text as a literal string, counted like
\* successive matches: left to right, without overlap
RECURSIVE LiteralCount(_, _, _)
LiteralCount(text, word, pos) ==
    IF pos + Len(word) - 1 > Len(text) THEN 0
    ELSE IF OccursAt(text, word, pos)
         THEN 1 + LiteralCount(text, word, pos + Len(word))
         ELSE LiteralCount(text, word, pos + 1)

\* the reference score of C6
ReferenceScore(doc, q) ==
    LET queryLower == ToLowerCase(q)
        title == ToLowerCase(doc.title)
        content == ToLowerCase(doc.content)
        queryWords == SplitWhitespace(queryLower)
    IN  (IF Includes(title, queryLower) THEN 5 ELSE 0)
      + (IF Includes(content, queryLower) THEN 3 ELSE 0)
      + SumSeq([t \in 1..Len(doc.tags) |->
                  IF Includes(ToLowerCase(doc.tags[t]), queryLower)
                  THEN 2 ELSE 0], 1)
      + SumSeq([w \in 1..Len(queryWords) |->
                  IF Len(queryWords[w]) > 2
                  THEN 2 * LiteralCount(title, queryWords[w], 1)
                     + LiteralCount(content, queryWords[w], 1)
                  ELSE 0], 1)

\* C6: the score keywordSearch gives a document is the reference score:
\* 5, 3 and 2 per tag for the substring matches, plus 2 per literal
\* occurrence of each query word of length > 2 in the title and 1 per
\* literal occurrence in the content.
C6_ScoreIsReference ==
    KeywordReturned =>
        \A i \in 1..Len(results) :
            results[i].relevanceScore =
                ReferenceScore(DocOfId(results[i].id), query)

\* C7: a hybridRetrieval result never holds the same document id twice.
C7_NoDuplicateIds ==
    HybridReturned =>
        \A i, j \in 1..Len(results) :
            i # j => results[i].id # results[j].id

\* a result of two or more entries, one of a document that is in the
\* keyword list and in the vector list
C7_Witness ==
    /\ HybridReturned
    /\ Len(results) >= 2
    /\ \E i \in 1..Len(results) :
          InKeywordResults(results[i].id) /\ InVectorResults(results[i].id)

\* x >= y as numbers: false when either is NaN
NumericGE(x, y) == ~x.nan /\ ~y.nan /\ ScoreGE(x, y)

\* C8: a hybridRetrieval result is ordered by non-increasing combinedScore
\* and is at most maxResults long.
C8_SortedAndBounded ==
    HybridReturned =>
        /\ Len(results) <= maxResults
        /\ \A i \in 1..(Len(results) - 1) :
              NumericGE(results[i].combinedScore, results[i + 1].combinedScore)

\* C9: hybridRetrieval(query, 0) returns an empty sequence.
C9_ZeroMaxResultsEmpty ==
    (op = "hybridRetrieval" /\ maxResults = 0) =>
        ~threw /\ results = <<>>

\* the documents with a positive score for the query
Matching == {i \in 1..Len(documents) : KeywordScore(documents[i], query) > 0}

\* C10: keywordSearch returns a document exactly when its score is > 0
\* (all of them unless maxResults cuts the list), each with relevanceScore
\* equal to that score; a document with score 0 is never returned.
C10_IncludedIffPositive ==
    KeywordReturned =>
        /\ \A i \in 1..Len(results) :
              /\ results[i].relevanceScore > 0
              /\ results[i].relevanceScore =
                    KeywordScore(DocOfId(results[i].id), query)
        /\ Len(results) =
              IF Cardinality(Matching) < maxResults
              THEN Cardinality(Matching) ELSE maxResults
        /\ \A i, j \in 1..Len(results) : i # j => results[i].id # results[j].id

\* keywordSearch returned some document and left another out for its
\* score of 0, with room to spare
C10_Witness ==
    /\ KeywordReturned
    /\ Len(results) >= 1
    /\ Len(results) < maxResults
    /\ Len(results) < Len(documents)

\* C11: a keywordSearch result is ordered by non-increasing relevanceScore,
\* is at most maxResults long, and lists documents of equal score in the
\* order they have in the corpus.
C11_KeywordOrder ==
    KeywordReturned =>
        /\ Len(results) <= maxResults
        /\ \A i, j \in 1..Len(results) :
              i < j =>
                 /\ results[i].relevanceScore >= results[j].relevanceScore
                 /\ results[i].relevanceScore = results[j].relevanceScore =>
                       IndexOfId(documents, results[i].id)
                           < IndexOfId(documents, results[j].id)

\* two documents of equal score are returned, behind a corpus that holds a
\* third document the slice cut off or the filter dropped
C11_Witness ==
    /\ KeywordReturned
    /\ Len(results) = 2
    /\ results[1].relevanceScore = results[2].relevanceScore
    /\ Len(documents) = 3

\* the position of id in the candidate list of the call
CandidateIndex(id) ==
    CHOOSE i \in 1..Len(candidates) :
        candidates[i] = id /\ \A j \in 1..(i - 1) : candidates[j] # id

\* C12: a vectorSearch result is ordered by non-increasing similarity, is at
\* most topK long, and lists entries of equal similarity in the order their
\* ids have in candidateIds.
C12_VectorOrder ==
    op = "vectorSearch" =>
        /\ Len(results) <= maxResults
        /\ \A i, j \in 1..Len(results) :
              i < j =>
                 /\ NumericGE(SimKey(results[i].similarity),
                              SimKey(results[j].similarity))
                 /\ results[i].similarity = results[j].similarity =>
                       CandidateIndex(results[i].docId)
                           < CandidateIndex(results[j].docId)

\* the candidate ids of the call
CandidateIds == {candidates[i] : i \in 1..Len(candidates)}

\* the smaller of two numbers
Min(a, b) == IF a < b THEN a ELSE b

\* C13: vectorSearch does not raise and skips the candidate ids without a
\* table entry: every id of its result is a candidate and a key of the
\* table, and no candidate with an entry is lost but by the cut to topK.
\* A corpus document without a table entry that hybridRetrieval returns has
\* vectorScore 0 and its keyword score as combinedScore.
C13_AbsentIdsSkipped ==
    /\ op = "vectorSearch" =>
          /\ ~threw
          /\ \A i \in 1..Len(results) :
                /\ results[i].docId \in CandidateIds
                /\ results[i].docId \in DOMAIN embeddings
          /\ Len(results) =
                Min(maxResults, Cardinality(CandidateIds \cap DOMAIN embeddings))
    /\ HybridReturned =>
          /\ \A i \in 1..Len(vectorResults) :
                vectorResults[i].docId \in DOMAIN embeddings
          /\ \A i \in 1..Len(results) :
                results[i].id \notin DOMAIN embeddings =>
                   /\ results[i].vectorScore = Zero
                   /\ results[i].keywordScore > 0
                   /\ results[i].combinedScore = RawScore(results[i].keywordScore)

\* vectorSearch is handed an id without a table entry beside one with an
\* entry, and returns the latter
C13_Witness ==
    /\ op = "vectorSearch"
    /\ \E i \in 1..Len(candidates) : candidates[i] \notin DOMAIN embeddings
    /\ Len(results) >= 1

\* a vectorSearch call of the store returned
StoreSearched == op = "vectorSearch"

\* the keys of the query vector of the call
QueryKeys == DOMAIN vectorize(query)

\* the keys of the table entry of id
EntryKeys(id) == DOMAIN embeddings[id]

\* C14: the similarity of two vectors without a common key is exactly 0 and
\* not NaN, also when one or both vectors are empty.
C14_DisjointIsZero ==
    StoreSearched =>
        \A i \in 1..Len(results) :
            QueryKeys \cap EntryKeys(results[i].docId) = {} =>
                results[i].similarity = [nan |-> FALSE, num |-> 0, den |-> 1]

\* one search meets an empty entry and a non-empty entry without a common
\* word, with a non-empty query vector
C14_Witness ==
    /\ StoreSearched
    /\ QueryKeys # {}
    /\ Len(results) = 2
    /\ \E i, j \in 1..2 :
          /\ EntryKeys(results[i].docId) = {}
          /\ EntryKeys(results[j].docId) # {}
          /\ QueryKeys \cap EntryKeys(results[j].docId) = {}

\* every weight of the vector is a number greater than 0
PositiveWeights(vec) ==
    \A w \in DOMAIN vec : ~vec[w].nan /\ vec[w].num > 0 /\ vec[w].den > 0

\* the similarity 1
SimOne == [nan |-> FALSE, num |-> 1, den |-> 1]

\* C15: the similarity of a non-empty vector of positive weights with itself
\* is 1.
C15_SelfSimilarityOne ==
    StoreSearched =>
        \A i \in 1..Len(results) :
            (/\ embeddings[results[i].docId] = vectorize(query)
             /\ QueryKeys # {}
             /\ PositiveWeights(vectorize(query))) =>
                results[i].similarity = SimOne

\* the query is the text an entry was saved from, a vector of two
\* different weights
C15_Witness ==
    /\ StoreSearched
    /\ query = TextAlphaTwice
    /\ \E i \in 1..Len(results) :
          embeddings[results[i].docId] = vectorize(query)

SavedText == ToLowerCase(query)

\* the vector the saveEmbedding call of the store put into the table
SavedVector == embeddings[candidates[1]]

\* the tokens of the saved text: its maximal runs of word characters
SavedTokens == MatchWords(SavedText)

\* C17: the keys of vectorize(text) are the lower-cased tokens of length > 2
\* of the text and the weight of a key is its number of occurrences over the
\* number of all tokens.
C17_VectorIsTermFrequency ==
    op = "saveEmbedding" =>
        /\ DOMAIN SavedVector =
              {SavedTokens[i] : i \in {j \in 1..Len(SavedTokens) :
                                          Len(SavedTokens[j]) > 2}}
        /\ \A w \in DOMAIN SavedVector :
              /\ ~SavedVector[w].nan
              /\ SavedVector[w].num * Len(SavedTokens) =
                    SavedVector[w].den
                       * Cardinality({i \in 1..Len(SavedTokens) : SavedTokens[i] = w})

\* every weight of the vector is a number in [0,1]
WeightsInUnitInterval(vec) ==
    \A w \in DOMAIN vec :
        /\ ~vec[w].nan
        /\ vec[w].den > 0
        /\ 0 <= vec[w].num
        /\ vec[w].num <= vec[w].den

\* C18: every weight of every vector saveEmbedding stored in the table is a
\* number in [0,1], whatever the tokens of the text are.
C18_WeightsInUnitInterval ==
    \A id \in DOMAIN embeddings : WeightsInUnitInterval(embeddings[id])

\* the text has no word character: it has no token
NoWordChar(text) == \A i \in 1..Len(text) : ~IsWordChar(text[i])

\* C19: the vector of a text without a token is the empty vector, and a
\* vectorSearch with such a query does not raise and returns every
\* candidate that has a table entry (up to topK) with similarity 0.
C19_TokenFreeText ==
    /\ (op = "saveEmbedding" /\ NoWordChar(query)) =>
          /\ ~threw
          /\ DOMAIN SavedVector = {}
    /\ (StoreSearched /\ NoWordChar(query)) =>
          /\ ~threw
          /\ Len(results) =
                Min(maxResults, Cardinality(CandidateIds \cap DOMAIN embeddings))
          /\ \A i \in 1..Len(results) :
                results[i].similarity = [nan |-> FALSE, num |-> 0, den |-> 1]

\* a search with the token-free query ".+" over two entries, one of them
\* the empty vector of a token-free text
C19_Witness ==
    /\ StoreSearched
    /\ query = TextNoWords
    /\ Len(results) = 2
    /\ \E i, j \in 1..2 :
          /\ EntryKeys(results[i].docId) = {}
          /\ EntryKeys(results[j].docId) # {}

\* saveEmbedding is run for an id whose entry is the vector of the same text
ResaveStep ==
    /\ op' = "saveEmbedding"
    /\ candidates'[1] \in DOMAIN embeddings
    /\ embeddings[candidates'[1]] = vectorize(query')

C21_EntriesOnlyReplaced ==
    [][/\ DOMAIN embeddings \subseteq DOMAIN embeddings'
       /\ \A id \in DOMAIN embeddings :
             embeddings'[id] # embeddings[id] =>
                op' = "saveEmbedding" /\ candidates' = <<id>>
       /\ op' = "saveEmbedding" =>
             /\ candidates'[1] \in DOMAIN embeddings'
             /\ embeddings'[candidates'[1]] = vectorize(query')]_vars

\* saveEmbedding has replaced the entry of id 1 by the vector of another
\* text while id 2 keeps the entry it had
C21_Witness ==
    /\ op = "saveEmbedding"
    /\ candidates = <<1>>
    /\ query = TextGamma
    /\ 2 \in DOMAIN embeddings
    /\ embeddings[2] = vectorize(TextAlphaBeta)

\* C22: once addDocument has completed, the new document is the last of the
\* corpus and the table maps its id to vectorize(title + " " + content); once
\* createDefaultKnowledgeBase has completed, the corpus is the default corpus
\* and the table maps the id of each of its documents to the vector of its
\* title, a space and its content.
C22_IngestionStoresVector ==
    /\ op = "addDocument" =>
          /\ Len(documents) > 0
          /\ LET doc == documents[Len(documents)]
             IN  /\ doc.id \in DOMAIN embeddings
                 /\ embeddings[doc.id] =
                       vectorize(doc.title \o <<" ">> \o doc.content)
    /\ op = "createDefaultKnowledgeBase" =>
          /\ documents = defaultDocs
          /\ \A i \in 1..Len(documents) :
                /\ documents[i].id \in DOMAIN embeddings
                /\ embeddings[documents[i].id] =
                      vectorize(documents[i].title \o <<" ">> \o
                                documents[i].content)

\* Doc B is added to the corpus loaded from the file that holds Doc A
C22_Witness ==
    /\ op = "addDocument"
    /\ documents = <<MakeDoc(1, DocA), MakeDoc(2, DocB)>>
    /\ embeddings[2] = vectorize(TitleB \o <<" ">> \o ContentB)

\* the ids of the documents of the list
DocIdSet(docs) == {docs[i].id : i \in 1..Len(docs)}

\* every document of the list has its entry in the table
AllIngested == DocIdSet(documents) \subseteq DOMAIN embeddings

\* C23: the operations run atomically with respect to one another: whenever
\* the vector phase of a query runs, every document of the list has its table
\* entry (none is seen half ingested), and the document list is still the one
\* the keyword phase of the same hybridRetrieval call read.
C23_OperationsAtomic ==
    [][(pending # <<>> /\ Head(pending).k = "vectorSearch") =>
          /\ AllIngested
          /\ Head(pending).by = "hybridRetrieval" =>
                Head(pending).docIds = DocIdsOf(documents)]_vars

\* the vector file holds a list of [id, vector] pairs
IsEntriesFile(file) ==
    /\ file.kind = "entries"
    /\ \A id \in DOMAIN file.table : file.table[id] # NullVector

\* the document file holds a list of documents
IsDocumentsFile(file) ==
    /\ file.kind = "documents"
    /\ \A i \in 1..Len(file.docs) : file.docs[i] # NotADocument

\* C24: loading never crashes the core: a vector file that is missing or is
\* not a list of [id, vector] pairs leaves the table empty, a document file
\* that is missing or is not a list of documents gives the default corpus,
\* and no query made after loading raises.
C24_LoadingNeverCrashes ==
    [][/\ (op' = "vectorStore" /\ ~IsEntriesFile(embeddingsFile)) =>
             embeddings' = EmptyTable
       /\ (op = "vectorStore" /\ ~IsDocumentsFile(knowledgeFile)) =>
             documents' = defaultDocs
       /\ ~threw']_vars

\* C25: saveEmbeddings followed by loadEmbeddings in a fresh VectorStore gives
\* the table back: the same ids and, for each id, the same keys and weights.
C25_RoundTrip ==
    [][op' = "loadEmbeddings" =>
          /\ DOMAIN embeddings' = DOMAIN embeddings
          /\ \A id \in DOMAIN embeddings :
                /\ DOMAIN embeddings'[id] = DOMAIN embeddings[id]
                /\ \A w \in DOMAIN embeddings[id] :
                      embeddings'[id][w] = embeddings[id][w]]_vars

\* C26: after any sequence of addDocument calls that starts from the default
\* corpus, the ids of the documents of the list are pairwise distinct.
C26_IdsDistinct ==
    \A i, j \in 1..Len(documents) :
        i # j => documents[i].id # documents[j].id

\* the steps of the query operations
QueryOps == {"keywordSearch", "vectorSearch", "hybridRetrieval"}

ScoreFields == {"relevanceScore", "keywordScore", "vectorScore", "combinedScore"}

\* C27: a query leaves the document list (membership, order, fields), the
\* vector table and the persisted files as they were, and no stored document
\* carries a score field, before or after it.
C27_QueriesReadOnly ==
    [][op' \in QueryOps =>
          /\ documents' = documents
          /\ embeddings' = embeddings
          /\ knowledgeFile' = knowledgeFile
          /\ embeddingsFile' = embeddingsFile
          /\ \A i \in 1..Len(documents') :
                DOMAIN documents'[i] \cap ScoreFields = {}]_vars

\* a hybridRetrieval over two stored documents has returned scored copies
C27_Witness ==
    /\ op = "hybridRetrieval"
    /\ Len(documents) = 2
    /\ DOMAIN embeddings = {1, 2}
    /\ Len(results) = 2
    /\ "combinedScore" \in DOMAIN results[1]
    /\ "combinedScore" \notin DOMAIN documents[1]

\* C28: in a hybridRetrieval result every entry of a document of the keyword
\* list has an integer keywordScore >= 1 and a combinedScore >= 0.6, every
\* entry of a document that is in the vector list only has the combinedScore
\* 0.4 * similarity <= 0.4, and the former all come before the latter.
C28_KeywordBeforeVectorOnly ==
    HybridReturned =>
        /\ \A i \in 1..Len(results) :
              LET e == results[i]
              IN  IF InKeywordResults(e.id)
                  THEN /\ e.keywordScore >= 1
                       /\ ~e.combinedScore.nan
                       /\ e.combinedScore.tenths >= 6
                  ELSE /\ e.combinedScore = VectorOnlyScore(e.vectorScore)
                       /\ ~e.combinedScore.nan
                       /\ e.vectorScore.num <= e.vectorScore.den
        /\ \A i, j \in 1..Len(results) :
              (InKeywordResults(results[i].id) /\ ~InKeywordResults(results[j].id))
                 => i < j

\* the ids and the combinedScores of a result list, in order
Ranking(list) ==
    [i \in 1..Len(list) |->
        [id |-> list[i].id, combinedScore |-> list[i].combinedScore]]

\* C29: for the same corpus, table and query and every limit n up to the
\* limit of the call, the ids and combinedScores that hybridRetrieval returns
\* for n are the first n entries of what the call returned.
C29_PrefixAcrossLimits ==
    HybridReturned =>
        \A n \in 0..maxResults :
            \A r \in hybridRetrieval(documents, embeddings, query, n) :
                Ranking(r) = Ranking(Slice(results, n))

\* C30: every entry that hybridRetrieval returns, and every entry of the
\* vector list it fuses, has the id of a document of the corpus and, in the
\* result, that document's title and content; the id of a table entry that
\* belongs to no document is in neither.
C30_OnlyCorpusDocuments ==
    HybridReturned =>
        /\ \A i \in 1..Len(vectorResults) :
              vectorResults[i].docId \in DocIdSet(documents)
        /\ \A i \in 1..Len(results) :
              /\ results[i].id \in DocIdSet(documents)
              /\ \E d \in 1..Len(documents) :
                    /\ documents[d].id = results[i].id
                    /\ documents[d].title = results[i].title
                    /\ documents[d].content = results[i].content

\* the table holds the vector of a document that is not in the corpus, the
\* query shares a word with it, and hybridRetrieval returned the one document
\* of the corpus
C30_Witness ==
    /\ HybridReturned
    /\ query = Beta
    /\ StaleId \in DOMAIN embeddings
    /\ StaleId \notin DocIdSet(documents)
    /\ cosineSimilarity(vectorize(query), embeddings[StaleId]) # SimZero
    /\ Len(vectorResults) = 1
    /\ Len(results) = 1

====
